---- MODULE Spec2Model ----
(***************************************************************************)
(* A model of the CHIP-8 emulator of src/src/main.rs: the memory, the      *)
(* register file, the display buffer, the instruction decoder and the      *)
(* execution engine ChipSystem::ex_opcode.                                 *)
(*                                                                         *)
(* The machine is a record (the fields of ChipMemory, ChipRegisters and    *)
(* ChipDisplay, plus `panic`, the panic that ended the call, if any).      *)
(* Every method of the source is an operator from machine to machine; a    *)
(* method called on a machine that has already panicked does nothing, so   *)
(* a handler is the composition of its statements in source order and a    *)
(* panic in the middle of a handler keeps what the handler wrote before.   *)
(***************************************************************************)
EXTENDS Integers, Sequences, FiniteSets, TLC

VARIABLES
    gp_reg,           \* ChipRegisters.gp_reg: 16 general purpose u8 registers
    stack,            \* ChipRegisters.stack: 16 u16 slots
    i_reg,            \* ChipRegisters.i_reg: u16
    d_reg,            \* ChipRegisters.d_reg: u8 delay timer
    s_reg,            \* ChipRegisters.s_reg: u8 sound timer
    pc_reg,           \* ChipRegisters.pc_reg: u16
    sp_reg,           \* ChipRegisters.sp_reg: usize
    ram,              \* ChipMemory.ram: 4096 u8 cells
    display,          \* ChipDisplay.display: 2048 booleans
    panic,            \* the panic that ended the last call, or NoPanic
    overflow_checks,  \* the build: TRUE for a debug build, FALSE for a release build
    opcode,           \* the word handed to the last ex_opcode call
    steps,            \* number of ex_opcode calls made so far
    pushes,           \* number of push_stack calls that returned
    pops,             \* number of pop_stack calls that returned
    calls,            \* the addresses pushed and not yet popped, oldest first
    rom_res,          \* how the load_rom_file call ended, or NotLoaded
    rom_len,          \* number of bytes of the file handed to load_rom_file
    d_set,            \* the value the delay timer was last set to
    d_ticks,          \* decr_d calls since the delay timer was last set
    s_set,            \* the value the sound timer was last set to
    s_ticks           \* decr_s calls since the sound timer was last set

vars == <<gp_reg, stack, i_reg, d_reg, s_reg, pc_reg, sp_reg, ram, display,
          panic, overflow_checks, opcode, steps, pushes, pops, calls,
          rom_res, rom_len, d_set, d_ticks, s_set, s_ticks>>

(***************************************************************************)
(* Program constants.                                                      *)
(***************************************************************************)
RamSize == 4096
RomStart == 512
NumRegs == 16
StackSize == 16
DisplaySize == 2048
\* "Capacity of 3584 is max size of Chip8 rom"
RomMax == 3584
U8Mod == 256
U16Mod == 65536
\* usize::MAX, what 0usize - 1 wraps to in a release build.  The value
\* stands for 2^64 - 1 (2^32 - 1 on a 32-bit target): the largest integer
\* the model checker holds.  Only its being far above StackSize matters.
UsizeMax == 2147483647

(***************************************************************************)
(* Bounds of the model.                                                    *)
(***************************************************************************)
MaxSteps == 3         \* ex_opcode calls in one run of Spec
MaxMemSteps == 3      \* ex_opcode calls in one run of SpecMem
MaxPushes == 17       \* successful pushes in one run of SpecStack
MaxAltCalls == 1      \* stack slots that may hold the second call target
MaxDecodeSteps == 1   \* ex_opcode calls in one run of SpecDecode
MaxSkipSteps == 3     \* ex_opcode calls in one run of SpecSkip
MaxLoadSteps == 2     \* ex_opcode calls in one run of SpecLoad
MaxTimerSteps == 2    \* ex_opcode calls in one run of SpecTimer
MaxTicks == 4         \* decr_d calls, and decr_s calls, after a timer is set
MaxShiftSteps == 3    \* ex_opcode calls in one run of SpecShift

NoPanic == "none"
InvalidOpcode == "Invalid Opcode"
InvalidHeader == "Invalid Opcode header"
StackOverflow == "push_stack: index out of bounds"
StackUnderflowSub == "pop_stack: attempt to subtract with overflow"
StackUnderflowIdx == "pop_stack: index out of bounds"
RamOutOfBounds == "ram: index out of bounds"
RegOutOfBounds == "gp_reg: index out of bounds"
AddOverflow == "attempt to add with overflow"
SubOverflow == "attempt to subtract with overflow"

\* How ChipMemory::load_rom_file ended.
NotLoaded == "not called"
LoadOk == "Ok(())"
LoadIoErr == "Err(io::Error)"
LoadPanicked == "panicked"

(***************************************************************************)
(* Bit operations on bytes.                                                *)
(***************************************************************************)
Pow2(n) == IF n = 0 THEN 1 ELSE IF n = 1 THEN 2 ELSE IF n = 2 THEN 4
           ELSE IF n = 3 THEN 8 ELSE IF n = 4 THEN 16 ELSE IF n = 5 THEN 32
           ELSE IF n = 6 THEN 64 ELSE 128

Bit(a, n) == (a \div Pow2(n)) % 2

\* the byte whose bit n is bits[n]
FromBits(bits) ==
    bits[0] + 2 * bits[1] + 4 * bits[2] + 8 * bits[3] + 16 * bits[4]
    + 32 * bits[5] + 64 * bits[6] + 128 * bits[7]

BitOr(a, b) == FromBits([n \in 0..7 |-> IF Bit(a, n) + Bit(b, n) > 0 THEN 1 ELSE 0])
BitAnd(a, b) == FromBits([n \in 0..7 |-> Bit(a, n) * Bit(b, n)])
BitXor(a, b) == FromBits([n \in 0..7 |-> (Bit(a, n) + Bit(b, n)) % 2])

(***************************************************************************)
(* The machine as a value.                                                 *)
(***************************************************************************)
Sys == [gp_reg |-> gp_reg, stack |-> stack, i_reg |-> i_reg, d_reg |-> d_reg,
        s_reg |-> s_reg, pc_reg |-> pc_reg, sp_reg |-> sp_reg, ram |-> ram,
        display |-> display, panic |-> panic]

\* init_chip8: ChipMemory::init, ChipDisplay::init, ChipRegisters::init
init_chip8 ==
    [gp_reg |-> [r \in 0..(NumRegs - 1) |-> 0],
     stack |-> [k \in 0..(StackSize - 1) |-> 0],
     i_reg |-> 0, d_reg |-> 0, s_reg |-> 0, pc_reg |-> 0, sp_reg |-> 0,
     ram |-> [a \in 0..(RamSize - 1) |-> 0],
     display |-> [p \in 0..(DisplaySize - 1) |-> FALSE],
     panic |-> NoPanic]

Fail(s, msg) == IF s.panic # NoPanic THEN s ELSE [s EXCEPT !.panic = msg]

\* An arithmetic overflow: a panic where the build checks for it, nothing
\* otherwise (the caller stores the wrapped value).
Overflow(s, overflowed, msg) ==
    IF overflowed /\ overflow_checks THEN Fail(s, msg) ELSE s

(***************************************************************************)
(* ChipMemory                                                              *)
(***************************************************************************)
set_byte(s, loc, val) ==
    IF s.panic # NoPanic THEN s
    ELSE IF loc >= RamSize THEN Fail(s, RamOutOfBounds)
    ELSE [s EXCEPT !.ram[loc] = val]

\* get_byte is only called with loc < 15 (the loop of 0xFx65), inside ram
get_byte(s, loc) == s.ram[loc]

\* The loop "for i in 0..len { ram[i + start] = rom[i] }" as one assignment:
\* it writes rom[i] to every cell i + start inside ram, in ascending order,
\* and panics on the first index i + start outside ram.  rom is a sequence,
\* so the source's rom[i] is rom[i + 1] here.
load_bytes(s, rom) ==
    LET len == Len(rom)
        written == [s EXCEPT !.ram =
                      [a \in 0..(RamSize - 1) |->
                         IF a >= RomStart /\ a - RomStart < len
                         THEN rom[a - RomStart + 1] ELSE s.ram[a]]]
    IN  IF s.panic # NoPanic THEN s
        ELSE IF len + RomStart > RamSize THEN Fail(written, RamOutOfBounds)
        ELSE written

\* File::open(..)? and read_to_end(..)? return the io error before anything
\* is written; Vec::with_capacity(3584) does not limit what is read.
load_rom_file(s, file) ==
    IF ~file.exists THEN s ELSE load_bytes(s, file.bytes)

(***************************************************************************)
(* ChipRegisters                                                           *)
(***************************************************************************)
set_gp(s, index, value) ==
    IF s.panic # NoPanic THEN s
    ELSE IF index >= NumRegs THEN Fail(s, RegOutOfBounds)
    ELSE [s EXCEPT !.gp_reg[index] = value]

\* get_gp is only called with a nibble of the word, a loop index below 15
\* or the literal 0, all inside the registers
get_gp(s, index) == s.gp_reg[index]

add_gp(s, index, value) ==
    LET sum == s.gp_reg[index] + value
    IN  set_gp(Overflow(s, sum >= U8Mod, AddOverflow), index, sum % U8Mod)

set_i(s, value) == IF s.panic # NoPanic THEN s ELSE [s EXCEPT !.i_reg = value]

get_i(s) == s.i_reg

set_pc(s, value) == IF s.panic # NoPanic THEN s ELSE [s EXCEPT !.pc_reg = value]

incr_pc(s) ==
    LET sum == s.pc_reg + 2
    IN  set_pc(Overflow(s, sum >= U16Mod, AddOverflow), sum % U16Mod)

get_d(s) == s.d_reg

set_d(s, value) == IF s.panic # NoPanic THEN s ELSE [s EXCEPT !.d_reg = value]

set_s(s, value) == IF s.panic # NoPanic THEN s ELSE [s EXCEPT !.s_reg = value]

\* decr_d without the test for zero, wrapping as u8
decr_d_unguarded(s) == [s EXCEPT !.d_reg = (@ - 1) % U8Mod]

decr_d(s) == IF s.d_reg > 0 THEN [s EXCEPT !.d_reg = @ - 1] ELSE s

decr_s(s) == IF s.s_reg > 0 THEN [s EXCEPT !.s_reg = @ - 1] ELSE s

push_stack(s, addr) ==
    IF s.panic # NoPanic THEN s
    ELSE IF s.sp_reg >= StackSize THEN Fail(s, StackOverflow)
    ELSE [s EXCEPT !.stack[s.sp_reg] = addr, !.sp_reg = @ + 1]

\* pop_stack changes the machine and returns an address: pop_stack is the
\* machine after the call, pop_stack_addr the address returned (read only
\* when the call did not panic).
pop_stack(s) ==
    IF s.panic # NoPanic THEN s
    ELSE IF s.sp_reg = 0
         THEN IF overflow_checks
              THEN Fail(s, StackUnderflowSub)
              ELSE Fail([s EXCEPT !.sp_reg = UsizeMax], StackUnderflowIdx)
    ELSE IF s.sp_reg - 1 >= StackSize
         THEN Fail([s EXCEPT !.sp_reg = @ - 1], StackUnderflowIdx)
    ELSE [s EXCEPT !.sp_reg = @ - 1]

\* pop_stack_addr reading the slot before sp_reg is decremented
pop_stack_addr_above(s) == s.stack[s.sp_reg % StackSize]

pop_stack_addr(s) == s.stack[s.sp_reg - 1]

(***************************************************************************)
(* ChipDisplay                                                             *)
(***************************************************************************)
\* clear_display writing true to the last pixel of each row
clear_display_row_end_lit(s) ==
    IF s.panic # NoPanic THEN s
    ELSE [s EXCEPT !.display = [pos \in 0..(DisplaySize - 1) |->
                                   IF pos \div 64 \in 0..31 /\ pos % 64 \in 0..63
                                   THEN pos % 64 = 63 ELSE s.display[pos]]]

\* The two loops visit pos = y * 64 + x for y in 0..31 and x in 0..63, that
\* is every pos with pos / 64 in 0..31 (x being pos % 64).
clear_display(s) ==
    IF s.panic # NoPanic THEN s
    ELSE [s EXCEPT !.display = [pos \in 0..(DisplaySize - 1) |->
                                   IF pos \div 64 \in 0..31 /\ pos % 64 \in 0..63
                                   THEN FALSE ELSE s.display[pos]]]

(***************************************************************************)
(* Opcode                                                                  *)
(***************************************************************************)
Opcode_new(w) ==
    [h1 |-> (w \div 4096) % 16, v1 |-> (w \div 256) % 16,
     v2 |-> (w \div 16) % 16, v3 |-> w % 16]

\* (comps.v1 << 8) + (comps.v2 << 4) + comps.v3
Addr12(comps) == comps.v1 * 256 + comps.v2 * 16 + comps.v3

\* ((comps.v2 as u8) << 4) + comps.v3 as u8
Byte8(comps) == ((comps.v2 * 16) % U8Mod) + comps.v3

(***************************************************************************)
(* ChipSystem::ex_opcode, one operator for each arm of the match.  `rnd`   *)
(* is the byte ChipSystem::random_byte returns.                            *)
(***************************************************************************)
\* 0x0__0 CLS
OpCLS(s, c) == clear_display(s)

\* 0x0__E RET
OpRET(s, c) ==
    LET popped == pop_stack(s)
    IN  IF popped.panic # NoPanic THEN popped
        ELSE set_pc(popped, pop_stack_addr(s))

\* 0x1nnn JP
OpJP(s, c) == set_pc(s, Addr12(c))

\* OpCALL that also jumps to the target
OpCALL_jump(s, c) == set_pc(push_stack(s, Addr12(c)), Addr12(c))

\* 0x2nnn CALL addr
OpCALL(s, c) == push_stack(s, Addr12(c))

\* 0x3xkk SE Vx, byte
OpSEByte(s, c) ==
    IF Byte8(c) = get_gp(s, c.v1) THEN incr_pc(s) ELSE s

\* 0x4xkk SNE Vx, byte
OpSNEByte(s, c) ==
    IF Byte8(c) # get_gp(s, c.v1) THEN incr_pc(s) ELSE s

\* OpSEReg comparing Vx with the register index y
OpSEReg_index(s, c) ==
    IF get_gp(s, c.v1) = c.v2 THEN incr_pc(s) ELSE s

\* 0x5xy_ SE Vx, Vy
OpSEReg(s, c) ==
    IF get_gp(s, c.v1) = get_gp(s, c.v2) THEN incr_pc(s) ELSE s

\* OpLDByte storing only the low nibble of the byte
OpLDByte_low_nibble(s, c) == set_gp(s, c.v1, c.v3)

\* 0x6xkk LD Vx, byte
OpLDByte(s, c) == set_gp(s, c.v1, Byte8(c))

\* 0x7xkk ADD Vx, byte
OpADDByte(s, c) == add_gp(s, c.v1, Byte8(c))

\* 0x8xy0 LD Vx, Vy
OpLDReg(s, c) == set_gp(s, c.v1, get_gp(s, c.v2))

\* 0x8xy1 OR Vx, Vy
OpOR(s, c) == set_gp(s, c.v1, BitOr(get_gp(s, c.v1), get_gp(s, c.v2)))

\* 0x8xy2 AND Vx, Vy
OpAND(s, c) == set_gp(s, c.v1, BitAnd(get_gp(s, c.v1), get_gp(s, c.v2)))

\* 0x8xy3 XOR Vx, Vy
OpXOR(s, c) == set_gp(s, c.v1, BitXor(get_gp(s, c.v1), get_gp(s, c.v2)))

\* OpADD with the carry test off by one (holder >= 255)
OpADD_carry_at_255(s, c) ==
    LET holder == get_gp(s, c.v1) + get_gp(s, c.v2)
        flagged == set_gp(s, 15, IF holder >= 255 THEN 1 ELSE 0)
    IN  set_gp(flagged, c.v1, holder % U8Mod)

\* 0x8xy4 ADD Vx, Vy: the flag is written first, the sum second
OpADD(s, c) ==
    LET holder == get_gp(s, c.v1) + get_gp(s, c.v2)
        flagged == set_gp(s, 15, IF holder > 255 THEN 1 ELSE 0)
    IN  set_gp(flagged, c.v1, holder % U8Mod)

\* 0x8xy5 SUB Vx, Vy: the flag is written first, then the u8 subtraction
OpSUB(s, c) ==
    LET reg_x_val == get_gp(s, c.v1)
        reg_y_val == get_gp(s, c.v2)
        flagged == set_gp(s, 15, IF reg_x_val < reg_y_val THEN 0 ELSE 1)
        subtracted == Overflow(flagged, reg_x_val < reg_y_val, SubOverflow)
    IN  set_gp(subtracted, c.v1, (reg_x_val - reg_y_val) % U8Mod)

\* 0x8xy6 SHR Vx
OpSHR(s, c) ==
    LET reg_x_val == get_gp(s, c.v1)
        flagged == set_gp(s, 15, BitAnd(reg_x_val, 1))
    IN  set_gp(flagged, c.v1, reg_x_val \div 2)

\* 0x8xy7 SUBN Vx, Vy
OpSUBN(s, c) ==
    LET reg_x_val == get_gp(s, c.v1)
        reg_y_val == get_gp(s, c.v2)
        flagged == set_gp(s, 15, IF reg_y_val < reg_x_val THEN 0 ELSE 1)
        subtracted == Overflow(flagged, reg_y_val < reg_x_val, SubOverflow)
    IN  set_gp(subtracted, c.v1, (reg_y_val - reg_x_val) % U8Mod)

\* OpSHL with the flag normalised to 0 or 1
OpSHL_flag_bit(s, c) ==
    LET reg_x_val == get_gp(s, c.v1)
        flagged == set_gp(s, 15, BitAnd(reg_x_val, 128) \div 128)
    IN  set_gp(flagged, c.v1, (reg_x_val * 2) % U8Mod)

\* 0x8xyE SHL Vx: a u8 shift drops the top bit without any overflow check
OpSHL(s, c) ==
    LET reg_x_val == get_gp(s, c.v1)
        flagged == set_gp(s, 15, BitAnd(reg_x_val, 128))
    IN  set_gp(flagged, c.v1, (reg_x_val * 2) % U8Mod)

\* 0x9xy_ SNE Vx, Vy
OpSNEReg(s, c) ==
    IF get_gp(s, c.v1) # get_gp(s, c.v2) THEN incr_pc(s) ELSE s

\* 0xAnnn LD I, addr
OpLDI(s, c) == set_i(s, Addr12(c))

\* 0xBnnn JP V0, addr
OpJPV0(s, c) == set_pc(s, Addr12(c) + get_gp(s, 0))

\* 0xCxkk RND Vx, byte
OpRND(s, c, rnd) == set_gp(s, c.v1, BitAnd(Byte8(c), rnd))

\* 0xFx07 LD Vx, DT
OpLDVxDT(s, c) == set_gp(s, c.v1, get_d(s))

\* 0xFx15 LD DT, Vx: the value stored is comps.v1 as u8
OpLDDT(s, c) == set_d(s, c.v1)

\* 0xFx18 LD ST, Vx: the value stored is comps.v1 as u8
OpLDST(s, c) == set_s(s, c.v1)

\* 0xFx1E ADD I, Vx: the value added is comps.v1
OpADDI(s, c) ==
    LET value == get_i(s) + c.v1
    IN  set_i(Overflow(s, value >= U16Mod, AddOverflow), value % U16Mod)

\* OpBCD with the tens taken without the "% 10"
OpBCD_tens_unreduced(s, c) ==
    LET reg_val == get_gp(s, c.v1)
        i_val == get_i(s)
        ones == reg_val % 10
        tens == reg_val \div 10
        huns == (reg_val \div 100) % 10
        s1 == set_byte(s, i_val, huns)
        s2 == set_byte(Overflow(s1, i_val + 1 >= U16Mod, AddOverflow),
                       (i_val + 1) % U16Mod, tens)
    IN  set_byte(Overflow(s2, i_val + 2 >= U16Mod, AddOverflow),
                 (i_val + 2) % U16Mod, ones)

\* 0xFx33 LD B, Vx
OpBCD(s, c) ==
    LET reg_val == get_gp(s, c.v1)
        i_val == get_i(s)
        ones == reg_val % 10
        tens == (reg_val \div 10) % 10
        huns == (reg_val \div 100) % 10
        s1 == set_byte(s, i_val, huns)
        s2 == set_byte(Overflow(s1, i_val + 1 >= U16Mod, AddOverflow),
                       (i_val + 1) % U16Mod, tens)
    IN  set_byte(Overflow(s2, i_val + 2 >= U16Mod, AddOverflow),
                 (i_val + 2) % U16Mod, ones)

\* the loop `for loc in 0..x_range` of 0xFx55, from loc on
RECURSIVE StoreLoop(_, _, _, _)
StoreLoop(s, i_val, loc, x_range) ==
    IF loc >= x_range THEN s
    ELSE StoreLoop(set_byte(Overflow(s, i_val + loc >= U16Mod, AddOverflow),
                            (i_val + loc) % U16Mod, get_gp(s, loc)),
                   i_val, loc + 1, x_range)

\* 0xFx55 LD [I], Vx
OpStore(s, c) ==
    LET i_val == get_i(s)
        x_range == c.v1
        stored == StoreLoop(s, i_val, 0, x_range)
        new_i == i_val + x_range + 1
    IN  set_i(Overflow(stored, new_i >= U16Mod, AddOverflow), new_i % U16Mod)

\* the loop `for loc in 0..x_range` of 0xFx65, from loc on
RECURSIVE LoadLoop(_, _, _, _)
LoadLoop(s, i_val, loc, x_range) ==
    IF loc >= x_range THEN s
    ELSE LoadLoop(set_gp(s, i_val + loc, get_byte(s, loc)),
                  i_val, loc + 1, x_range)

\* OpLoad copying in the direction of 0xFx55, registers to memory
OpLoad_stores(s, c) == OpStore(s, c)

\* 0xFx65 LD Vx, [I]
OpLoad(s, c) == LoadLoop(s, get_i(s), 0, c.v1)

\* header 0x0: match comps.v3
Dispatch0(s, c) ==
    CASE c.v3 = 0 -> OpCLS(s, c)
      [] c.v3 = 14 -> OpRET(s, c)
      [] OTHER -> Fail(s, InvalidOpcode)

\* header 0x8: match comps.v3
Dispatch8(s, c) ==
    CASE c.v3 = 0 -> OpLDReg(s, c)
      [] c.v3 = 1 -> OpOR(s, c)
      [] c.v3 = 2 -> OpAND(s, c)
      [] c.v3 = 3 -> OpXOR(s, c)
      [] c.v3 = 4 -> OpADD(s, c)
      [] c.v3 = 5 -> OpSUB(s, c)
      [] c.v3 = 6 -> OpSHR(s, c)
      [] c.v3 = 7 -> OpSUBN(s, c)
      [] c.v3 = 14 -> OpSHL(s, c)
      [] OTHER -> Fail(s, InvalidOpcode)

\* DispatchE with a default arm that does nothing
DispatchE_silent(s, c) == s

\* header 0xE: match (comps.v2 << 4) + comps.v3; both arms are empty
DispatchE(s, c) ==
    CASE c.v2 * 16 + c.v3 = 158 -> s
      [] c.v2 * 16 + c.v3 = 161 -> s
      [] OTHER -> Fail(s, InvalidOpcode)

\* header 0xF: match (comps.v2 << 4) + comps.v3
DispatchF(s, c) ==
    CASE c.v2 * 16 + c.v3 = 7 -> OpLDVxDT(s, c)
      [] c.v2 * 16 + c.v3 = 10 -> s
      [] c.v2 * 16 + c.v3 = 21 -> OpLDDT(s, c)
      [] c.v2 * 16 + c.v3 = 24 -> OpLDST(s, c)
      [] c.v2 * 16 + c.v3 = 30 -> OpADDI(s, c)
      [] c.v2 * 16 + c.v3 = 41 -> s
      [] c.v2 * 16 + c.v3 = 51 -> OpBCD(s, c)
      [] c.v2 * 16 + c.v3 = 85 -> OpStore(s, c)
      [] c.v2 * 16 + c.v3 = 101 -> OpLoad(s, c)
      [] OTHER -> Fail(s, InvalidOpcode)

\* match comps.h1
ex_opcode(s, w, rnd) ==
    LET c == Opcode_new(w)
    IN  CASE c.h1 = 0 -> Dispatch0(s, c)
          [] c.h1 = 1 -> OpJP(s, c)
          [] c.h1 = 2 -> OpCALL(s, c)
          [] c.h1 = 3 -> OpSEByte(s, c)
          [] c.h1 = 4 -> OpSNEByte(s, c)
          [] c.h1 = 5 -> OpSEReg(s, c)
          [] c.h1 = 6 -> OpLDByte(s, c)
          [] c.h1 = 7 -> OpADDByte(s, c)
          [] c.h1 = 8 -> Dispatch8(s, c)
          [] c.h1 = 9 -> OpSNEReg(s, c)
          [] c.h1 = 10 -> OpLDI(s, c)
          [] c.h1 = 11 -> OpJPV0(s, c)
          [] c.h1 = 12 -> OpRND(s, c, rnd)
          [] c.h1 = 13 -> s
          [] c.h1 = 14 -> DispatchE(s, c)
          [] c.h1 = 15 -> DispatchF(s, c)
          [] OTHER -> Fail(s, InvalidHeader)

(***************************************************************************)
(* The system.  A call of ex_opcode is one step; after a panic the process *)
(* is gone and nothing more happens.  pushes, pops and calls record the    *)
(* calls of push_stack and pop_stack that returned.                        *)
(***************************************************************************)
Init ==
    /\ gp_reg = init_chip8.gp_reg
    /\ stack = init_chip8.stack
    /\ i_reg = init_chip8.i_reg
    /\ d_reg = init_chip8.d_reg
    /\ s_reg = init_chip8.s_reg
    /\ pc_reg = init_chip8.pc_reg
    /\ sp_reg = init_chip8.sp_reg
    /\ ram = init_chip8.ram
    /\ display = init_chip8.display
    /\ panic = init_chip8.panic
    /\ overflow_checks \in BOOLEAN
    /\ opcode = 0
    /\ steps = 0
    /\ pushes = 0
    /\ pops = 0
    /\ calls = <<>>
    /\ rom_res = NotLoaded
    /\ rom_len = 0
    /\ d_set = init_chip8.d_reg
    /\ d_ticks = 0
    /\ s_set = init_chip8.s_reg
    /\ s_ticks = 0

Header(w) == Opcode_new(w).h1
IsCALL(w) == Header(w) = 2
IsRET(w) == Header(w) = 0 /\ Opcode_new(w).v3 = 14
IsLDDT(w) == Header(w) = 15 /\ w % 256 = 21
IsLDST(w) == Header(w) = 15 /\ w % 256 = 24

\* the bytes random_byte may return, for the words that draw one
RandomBytes(w) == IF Header(w) = 12 THEN {0, 15, 255} ELSE {0}

Execute(w) ==
    /\ panic = NoPanic
    /\ \E rnd \in RandomBytes(w) :
         LET next == ex_opcode(Sys, w, rnd)
             pushed == IsCALL(w) /\ next.panic = NoPanic
             popped == IsRET(w) /\ next.panic = NoPanic
             d_loaded == IsLDDT(w) /\ next.panic = NoPanic
             s_loaded == IsLDST(w) /\ next.panic = NoPanic
         IN  /\ gp_reg' = next.gp_reg
             /\ stack' = next.stack
             /\ i_reg' = next.i_reg
             /\ d_reg' = next.d_reg
             /\ s_reg' = next.s_reg
             /\ pc_reg' = next.pc_reg
             /\ sp_reg' = next.sp_reg
             /\ ram' = next.ram
             /\ display' = next.display
             /\ panic' = next.panic
             /\ pushes' = IF pushed THEN pushes + 1 ELSE pushes
             /\ pops' = IF popped THEN pops + 1 ELSE pops
             /\ calls' = IF pushed THEN Append(calls, Addr12(Opcode_new(w)))
                         ELSE IF popped THEN SubSeq(calls, 1, Len(calls) - 1)
                         ELSE calls
             /\ d_set' = IF d_loaded THEN next.d_reg ELSE d_set
             /\ d_ticks' = IF d_loaded THEN 0 ELSE d_ticks
             /\ s_set' = IF s_loaded THEN next.s_reg ELSE s_set
             /\ s_ticks' = IF s_loaded THEN 0 ELSE s_ticks
    /\ opcode' = w
    /\ steps' = steps + 1
    /\ UNCHANGED <<overflow_checks, rom_res, rom_len>>

\* The one load of a rom file, made as main makes it: on the machine as
\* constructed.  The file is missing, or holds a byte sequence.
LoadRomFile(file) ==
    /\ panic = NoPanic
    /\ rom_res = NotLoaded
    /\ steps = 0
    /\ LET next == load_rom_file(Sys, file)
       IN  /\ ram' = next.ram
           /\ panic' = next.panic
           /\ rom_res' = IF ~file.exists THEN LoadIoErr
                         ELSE IF next.panic # NoPanic THEN LoadPanicked
                         ELSE LoadOk
    /\ rom_len' = Len(file.bytes)
    /\ UNCHANGED <<gp_reg, stack, i_reg, d_reg, s_reg, pc_reg, sp_reg, display,
                   overflow_checks, opcode, steps, pushes, pops, calls,
                   d_set, d_ticks, s_set, s_ticks>>

\* A timer tick of the host: one call of decr_d, or of decr_s.
TickD ==
    /\ panic = NoPanic
    /\ d_ticks < MaxTicks
    /\ d_reg' = decr_d(Sys).d_reg
    /\ d_ticks' = d_ticks + 1
    /\ UNCHANGED <<gp_reg, stack, i_reg, s_reg, pc_reg, sp_reg, ram, display,
                   panic, overflow_checks, opcode, steps, pushes, pops, calls,
                   rom_res, rom_len, d_set, s_set, s_ticks>>

TickS ==
    /\ panic = NoPanic
    /\ s_ticks < MaxTicks
    /\ s_reg' = decr_s(Sys).s_reg
    /\ s_ticks' = s_ticks + 1
    /\ UNCHANGED <<gp_reg, stack, i_reg, d_reg, pc_reg, sp_reg, ram, display,
                   panic, overflow_checks, opcode, steps, pushes, pops, calls,
                   rom_res, rom_len, d_set, d_ticks, s_set>>

(***************************************************************************)
(* Instruction words.                                                      *)
(***************************************************************************)
Word(h1, v1, v2, v3) == h1 * 4096 + v1 * 256 + v2 * 16 + v3
WordB(h1, v1, kk) == h1 * 4096 + v1 * 256 + kk
WordA(h1, nnn) == h1 * 4096 + nnn

\* Register arithmetic: loads and additions of the bytes 1 and 255 and the
\* two flag-setting additions and subtractions, on registers 0, 1 and the
\* flag register.
RegIdx == {0, 1, 15}

Words ==
    {WordB(h1, x, kk) : h1 \in {6, 7}, x \in RegIdx, kk \in {1, 255}}
    \cup {Word(8, x, y, n) : x \in RegIdx, y \in RegIdx, n \in {4, 5}}

Next == steps < MaxSteps /\ \E w \in Words : Execute(w)

Spec == Init /\ [][Next]_vars

\* Memory and timers: register loads, index loads at the start of the
\* program area and at the last two cells of ram, the addition to the
\* index register, BCD, register store and load, the timer moves, a
\* return, and one word outside the table.
MemWords ==
    {WordB(6, x, kk) : x \in {0, 1}, kk \in {7, 234}}
    \cup {WordA(10, nnn) : nnn \in {768, 4094, 4095}}
    \cup {WordB(15, x, low) : x \in {0, 1}, low \in {7, 21, 24, 30, 51}}
    \cup {WordB(15, x, low) : x \in {0, 1, 2}, low \in {85, 101}}
    \cup {Word(0, 0, 14, 14), Word(15, 0, 0, 0)}

MemNext == steps < MaxMemSteps /\ \E w \in MemWords : Execute(w)

SpecMem == Init /\ [][MemNext]_vars

\* Programs of calls and returns, as deep as the stack.
CallTarget == RomStart
AltCallTarget == RamSize - 2

StackWords == {WordA(2, CallTarget), WordA(2, AltCallTarget), Word(0, 0, 14, 14)}

AltSlots == {k \in 0..(StackSize - 1) : stack[k] = AltCallTarget}

StackNext ==
    \E w \in StackWords :
        /\ IsCALL(w) => pushes < MaxPushes
        /\ w = WordA(2, AltCallTarget) => Cardinality(AltSlots) < MaxAltCalls
        /\ Execute(w)

SpecStack == Init /\ [][StackNext]_vars

\* Every 16-bit word, executed on the machine as constructed.
AllWords == 0..(U16Mod - 1)

DecodeNext == steps < MaxDecodeSteps /\ \E w \in AllWords : Execute(w)

SpecDecode == Init /\ [][DecodeNext]_vars

\* The skips: loads of 1, the two skips on a byte for the bytes 0 and 1,
\* and the two skips on a register pair with the low nibbles 0 and 15.
SkipWords ==
    {WordB(6, x, 1) : x \in RegIdx}
    \cup {WordB(h1, x, kk) : h1 \in {3, 4}, x \in RegIdx, kk \in {0, 1}}
    \cup {Word(h1, x, y, n) : h1 \in {5, 9}, x \in {0, 1}, y \in {0, 1}, n \in {0, 15}}

SkipNext == steps < MaxSkipSteps /\ \E w \in SkipWords : Execute(w)

SpecSkip == Init /\ [][SkipNext]_vars

\* One word for every arm of ex_opcode and of its nested matches, the
\* default arms included, but for the clear-display arm.
ArmWords ==
    {Word(0, 0, 14, 14), Word(0, 0, 0, 1), WordA(1, RomStart), WordA(2, RomStart),
     WordB(3, 1, 0), WordB(4, 1, 0), Word(5, 1, 2, 0), WordB(6, 1, 234),
     WordB(7, 1, 3), Word(9, 1, 2, 0), WordA(10, RomStart), WordA(11, RomStart),
     WordB(12, 1, 255), Word(13, 1, 2, 3), WordB(14, 1, 158), WordB(14, 1, 161),
     WordB(14, 1, 0), WordB(15, 1, 7), WordB(15, 1, 10), WordB(15, 1, 21),
     WordB(15, 1, 24), WordB(15, 1, 30), WordB(15, 1, 41), WordB(15, 1, 51),
     WordB(15, 1, 85), WordB(15, 1, 101), WordB(15, 1, 0)}
    \cup {Word(8, 1, 2, n) : n \in {0, 1, 2, 3, 4, 5, 6, 7, 8, 14}}

\* Rom files: missing, empty, short, of the largest size that fits behind
\* RomStart, and one byte longer.  Byte i of a rom is (seed + i) mod 256.
RomLens == {0, 2, RomMax, RomMax + 1}
RomSeeds == {1, 129}
Rom(len, seed) == [i \in 1..len |-> (seed + i) % U8Mod]

Files ==
    {[exists |-> FALSE, bytes |-> <<>>]}
    \cup {[exists |-> TRUE, bytes |-> Rom(len, seed)] : len \in RomLens, seed \in RomSeeds}

\* with the clear-display arm: 0x00E0, and another word it matches
LoadWords == ArmWords \cup {Word(0, 0, 14, 0), Word(0, 1, 2, 0)}

LoadNext ==
    \/ \E file \in Files : LoadRomFile(file)
    \/ steps < MaxLoadSteps /\ \E w \in LoadWords : Execute(w)

SpecLoad == Init /\ [][LoadNext]_vars

\* Timers: every arm of ex_opcode, the timer loads of 0, 3 and 15, and the
\* ticks of the host.
TimerWords == ArmWords \cup {WordB(15, x, low) : x \in {0, 3, 15}, low \in {21, 24}}

TimerNext ==
    \/ TickD
    \/ TickS
    \/ steps < MaxTimerSteps /\ \E w \in TimerWords : Execute(w)

SpecTimer == Init /\ [][TimerNext]_vars

\* Shifts: loads of bytes with the top bit clear and set, and the left
\* shift of registers 0, 1 and the flag register.
ShiftWords ==
    {WordB(6, x, kk) : x \in {0, 1}, kk \in {1, 64, 128, 255}}
    \cup {Word(8, x, y, 14) : x \in RegIdx, y \in {0, 1}}

ShiftNext == steps < MaxShiftSteps /\ \E w \in ShiftWords : Execute(w)

SpecShift == Init /\ [][ShiftNext]_vars

(***************************************************************************)
(* The claims.  A step of the system is one ex_opcode call: in an action   *)
(* formula the unprimed variables are the machine before the call, the     *)
(* primed ones the machine after it, and opcode' is the word executed.     *)
(***************************************************************************)
X(w) == Opcode_new(w).v1
Y(w) == Opcode_new(w).v2
N(w) == Opcode_new(w).v3
Low(w) == w % 256
IsOp8(w, n) == Header(w) = 8 /\ N(w) = n
IsOpF(w, low) == Header(w) = 15 /\ Low(w) = low
\* the step is a call of ex_opcode, not a rom load or a timer tick
Called == steps' = steps + 1
InvalidInstruction == {InvalidOpcode, InvalidHeader}

\* C1, for x # 15 (with x = 15 the flag and the result are one register):
\* 0x8xy5 never fails; with Vx >= Vy before it, VF becomes 1 and Vx becomes
\* Vx - Vy; with Vx < Vy, VF becomes 0 and Vx becomes (Vx - Vy) mod 256.
C1_SubNeverFails ==
    [][IsOp8(opcode', 5) /\ X(opcode') # 15 =>
         LET x == X(opcode')
             y == Y(opcode')
         IN  /\ panic' = NoPanic
             /\ gp_reg[x] >= gp_reg[y] =>
                  gp_reg'[15] = 1 /\ gp_reg'[x] = gp_reg[x] - gp_reg[y]
             /\ gp_reg[x] < gp_reg[y] =>
                  gp_reg'[15] = 0 /\ gp_reg'[x] = (gp_reg[x] - gp_reg[y]) % 256]_vars

\* C2 as stated: after 0x8xy4, for every x and y, a sum <= 255 leaves the
\* flag register 0 and Vx the exact sum, a sum > 255 leaves the flag
\* register 1 and Vx the sum mod 256.
C2_AddAsStated ==
    [][IsOp8(opcode', 4) =>
         LET x == X(opcode')
             sum == gp_reg[X(opcode')] + gp_reg[Y(opcode')]
         IN  /\ sum <= 255 => gp_reg'[15] = 0 /\ gp_reg'[x] = sum
             /\ sum > 255 => gp_reg'[15] = 1 /\ gp_reg'[x] = sum % 256]_vars

\* C2 as amended: 0x8xy4 never fails and leaves Vx the sum mod 256 (the
\* exact sum when it is <= 255); when x # 15 the flag register is 1 if the
\* sum exceeds 255 and 0 otherwise; when x = 15 the result overwrites the
\* flag, so register 15 holds the sum mod 256.
C2_AddCarry ==
    [][IsOp8(opcode', 4) =>
         LET x == X(opcode')
             sum == gp_reg[X(opcode')] + gp_reg[Y(opcode')]
         IN  /\ panic' = NoPanic
             /\ gp_reg'[x] = sum % 256
             /\ sum <= 255 => gp_reg'[x] = sum
             /\ x # 15 => gp_reg'[15] = (IF sum > 255 THEN 1 ELSE 0)]_vars

\* C2's case: 255 + 255 in register 0 left 254 with the carry flag set.
C2_Witness ==
    /\ opcode = Word(8, 0, 0, 4)
    /\ panic = NoPanic
    /\ gp_reg[0] = 254
    /\ gp_reg[15] = 1

\* C3, its memory part: a failing execution step leaves memory exactly as
\* it was before the step (0xFx33 and 0xFx55 included).
C3_FailedStepKeepsMemory ==
    [][panic' # NoPanic => ram' = ram]_vars

\* C4: a push with fewer than 16 entries succeeds; a push on a full stack
\* fails with StackOverflow, a pop on an empty stack fails with
\* StackUnderflow, and neither failure changes the stack pointer or a stack
\* entry.
C4_StackFailures ==
    [][/\ IsCALL(opcode') /\ sp_reg < 16 => panic' = NoPanic
       /\ IsCALL(opcode') /\ sp_reg = 16 =>
            panic' = StackOverflow /\ sp_reg' = sp_reg /\ stack' = stack
       /\ IsRET(opcode') /\ sp_reg = 0 =>
            /\ panic' \in {StackUnderflowSub, StackUnderflowIdx}
            /\ sp_reg' = sp_reg
            /\ stack' = stack]_vars

\* C5: in every reachable state the stack pointer is between 0 and 16 and
\* equals the number of successful pushes minus the number of successful
\* pops.
C5_StackPointerRange ==
    sp_reg \in 0..16 /\ sp_reg = pushes - pops

\* C6: the call stack is last-in-first-out: a RET that succeeds sets the
\* program counter to the address of the latest CALL not yet returned from,
\* and after every successful CALL or RET the stack pointer is the number
\* of CALLs not yet returned from (so k CALLs then k RETs give back the
\* addresses in reverse order and the initial stack pointer).
C6_Lifo ==
    [][(IsCALL(opcode') \/ IsRET(opcode')) /\ panic' = NoPanic =>
         /\ sp_reg' = Len(calls')
         /\ IsRET(opcode') => Len(calls) > 0 /\ pc_reg' = calls[Len(calls)]]_vars

\* C6's case: sixteen nested calls, the first to another address than the
\* rest, then sixteen returns, the last of which gave back the first
\* address and emptied the stack.
C6_Witness ==
    /\ IsRET(opcode)
    /\ panic = NoPanic
    /\ pushes = 16
    /\ pops = 16
    /\ sp_reg = 0
    /\ pc_reg = AltCallTarget
    /\ stack[15] = CallTarget

\* the dispatch table as C7 lists what is outside it
InTable(w) ==
    /\ Header(w) = 0 => N(w) \in {0, 14}
    /\ Header(w) = 8 => N(w) \in {0, 1, 2, 3, 4, 5, 6, 7, 14}
    /\ Header(w) = 14 => Low(w) \in {158, 161}
    /\ Header(w) = 15 => Low(w) \in {7, 10, 21, 24, 30, 41, 51, 85, 101}

\* C7: for every 16-bit word, ex_opcode fails with InvalidInstruction
\* exactly when the word is outside the dispatch table, and then changes
\* no state.
C7_InvalidExactly ==
    [][/\ panic' \in InvalidInstruction <=> ~InTable(opcode')
       /\ panic' \in InvalidInstruction =>
            UNCHANGED <<gp_reg, stack, i_reg, d_reg, s_reg, pc_reg, sp_reg,
                        ram, display>>]_vars

\* C7's case: a word of header 0xE outside the table (0xE39F) has been
\* refused.
C7_Witness ==
    /\ steps = 1
    /\ opcode = Word(14, 3, 9, 15)
    /\ panic = InvalidOpcode

\* C8: 0xFx55 (inside ram) stores V0..Vx at I..I+x, sets I to I + x + 1
\* and changes no other memory cell and no general register.
C8_StoreInclusive ==
    [][IsOpF(opcode', 85) /\ i_reg + X(opcode') < RamSize =>
         LET x == X(opcode')
         IN  /\ \A k \in 0..x : ram'[i_reg + k] = gp_reg[k]
             /\ i_reg' = i_reg + x + 1
             /\ \A a \in 0..(RamSize - 1) :
                  a \notin i_reg..(i_reg + x) => ram'[a] = ram[a]
             /\ gp_reg' = gp_reg]_vars

\* C9: 0xFx65 (inside ram) loads V0..Vx from I..I+x and leaves the
\* registers above x unchanged.
C9_LoadInclusive ==
    [][IsOpF(opcode', 101) /\ i_reg + X(opcode') < RamSize =>
         LET x == X(opcode')
         IN  /\ \A k \in 0..x : gp_reg'[k] = ram[i_reg + k]
             /\ \A k \in (x + 1)..15 : gp_reg'[k] = gp_reg[k]]_vars

\* C10: 0xFx15 sets the delay timer to Vx and 0xFx18 sets the sound timer
\* to Vx.
C10_TimersFromRegister ==
    [][/\ IsOpF(opcode', 21) => d_reg' = gp_reg[X(opcode')]
       /\ IsOpF(opcode', 24) => s_reg' = gp_reg[X(opcode')]]_vars

\* C11: 0xFx1E sets the index register to its prior value plus the value
\* held in register x, not masked to 12 bits.
C11_AddIFromRegister ==
    [][IsOpF(opcode', 30) =>
         /\ panic' = NoPanic
         /\ i_reg' = i_reg + gp_reg[X(opcode')]]_vars

\* C12: a load of a rom longer than 3584 bytes ends in a load error, not in
\* a panic and not in success, and leaves every memory cell as it was.
C12_RomTooLarge ==
    [][rom_res' # rom_res /\ rom_len' > RomMax =>
         /\ rom_res' = LoadIoErr
         /\ panic' = NoPanic
         /\ ram' = ram]_vars

\* C13: a skip word adds 2 to the program counter when its condition holds
\* (0x3xkk: Vx = kk, 0x4xkk: Vx # kk, 0x5xy_: Vx = Vy, 0x9xy_: Vx # Vy),
\* leaves it alone otherwise, and changes nothing else.
C13_Skips ==
    [][Header(opcode') \in {3, 4, 5, 9} =>
         LET w == opcode'
             vx == gp_reg[X(w)]
             skip == CASE Header(w) = 3 -> vx = Low(w)
                       [] Header(w) = 4 -> vx # Low(w)
                       [] Header(w) = 5 -> vx = gp_reg[Y(w)]
                       [] Header(w) = 9 -> vx # gp_reg[Y(w)]
         IN  /\ panic' = NoPanic
             /\ pc_reg' = (IF skip THEN pc_reg + 2 ELSE pc_reg)
             /\ UNCHANGED <<gp_reg, stack, i_reg, d_reg, s_reg, sp_reg, ram,
                            display>>]_vars

\* V0 = 1 was loaded, 0x3001 skipped, and 0x901F, finding V0 # V1, skipped
C13_Witness ==
    /\ opcode = Word(9, 0, 1, 15)
    /\ gp_reg[0] = 1
    /\ gp_reg[1] = 0
    /\ pc_reg = 4
    /\ panic = NoPanic

\* C14: with I + 2 inside ram, 0xFx33 writes the hundreds, tens and ones
\* digits of Vx to ram[I], ram[I+1], ram[I+2], each digit in 0..9 and
\* together spelling Vx, and changes no other cell, no register and not I.
C14_Bcd ==
    [][IsOpF(opcode', 51) /\ i_reg + 2 <= RamSize - 1 =>
         LET v == gp_reg[X(opcode')]
         IN  /\ panic' = NoPanic
             /\ ram'[i_reg] = v \div 100
             /\ ram'[i_reg + 1] = (v \div 10) % 10
             /\ ram'[i_reg + 2] = v % 10
             /\ \A k \in 0..2 : ram'[i_reg + k] \in 0..9
             /\ 100 * ram'[i_reg] + 10 * ram'[i_reg + 1] + ram'[i_reg + 2] = v
             /\ \A a \in 0..(RamSize - 1) :
                    a \notin i_reg..(i_reg + 2) => ram'[a] = ram[a]
             /\ gp_reg' = gp_reg
             /\ i_reg' = i_reg]_vars

\* V0 = 234 and I = 768 were loaded and 0xF033 wrote 2, 3, 4
C14_Witness ==
    /\ opcode = WordB(15, 0, 51)
    /\ gp_reg[0] = 234
    /\ i_reg = 768
    /\ ram[768] = 2
    /\ ram[769] = 3
    /\ ram[770] = 4
    /\ panic = NoPanic

\* C15: 0x7xkk never fails; it sets Vx to (Vx + kk) mod 256 and leaves the
\* flag register alone when x is not 15.
C15_AddByteNeverFails ==
    [][Header(opcode') = 7 =>
         LET x == X(opcode')
         IN  /\ panic' = NoPanic
             /\ gp_reg'[x] = (gp_reg[x] + Low(opcode')) % 256
             /\ x # 15 => gp_reg'[15] = gp_reg[15]]_vars

\* C16: after 0x6xkk register x holds kk, for every x including 15, and
\* every other register, the index register, the timers, the program
\* counter and the stack are unchanged.
C16_LoadByte ==
    [][Header(opcode') = 6 =>
         /\ panic' = NoPanic
         /\ gp_reg'[X(opcode')] = Low(opcode')
         /\ \A r \in 0..(NumRegs - 1) : r # X(opcode') => gp_reg'[r] = gp_reg[r]
         /\ UNCHANGED <<i_reg, d_reg, s_reg, pc_reg, stack, sp_reg>>]_vars

\* V0 = 1 and V1 = 255 were loaded, and 0x6FFF loaded 255 into the flag register
C16_Witness ==
    /\ opcode = WordB(6, 15, 255)
    /\ gp_reg[15] = 255
    /\ gp_reg[0] = 1
    /\ gp_reg[1] = 255
    /\ panic = NoPanic

C19_MemoryWriters ==
    [][/\ Called /\ ~IsOpF(opcode', 51) /\ ~IsOpF(opcode', 85) => ram' = ram
       /\ rom_res' # rom_res =>
            \A a \in 0..(RomStart - 1) : ram'[a] = ram[a]]_vars

\* a rom of the largest size was loaded up to the last cell of ram and
\* nowhere below 512, and LD I and ADD I were executed on it
C19_Witness ==
    /\ rom_res = LoadOk
    /\ rom_len = RomMax
    /\ ram[RomStart] # 0
    /\ ram[RamSize - 1] # 0
    /\ \A a \in 0..(RomStart - 1) : ram[a] = 0
    /\ opcode = WordB(15, 1, 30)
    /\ i_reg = RomStart + 1
    /\ panic = NoPanic

\* C20: a tick takes 1 from a timer that is not 0 and leaves a timer at 0
\* alone; an ex_opcode call changes a timer only by loading it; so a timer
\* set to t and ticked n times since holds max(t - n, 0).
C20_TimerTicks ==
    [][/\ d_ticks' = d_ticks + 1 => d_reg' = (IF d_reg > 0 THEN d_reg - 1 ELSE 0)
       /\ s_ticks' = s_ticks + 1 => s_reg' = (IF s_reg > 0 THEN s_reg - 1 ELSE 0)
       /\ Called /\ ~IsOpF(opcode', 21) => d_reg' = d_reg
       /\ Called /\ ~IsOpF(opcode', 24) => s_reg' = s_reg
       /\ d_reg' = (IF d_set' > d_ticks' THEN d_set' - d_ticks' ELSE 0)
       /\ s_reg' = (IF s_set' > s_ticks' THEN s_set' - s_ticks' ELSE 0)]_vars

\* the delay timer, set to 3, stays at 0 on its fourth tick; the sound
\* timer, set to 3, holds 2 after one tick
C20_Witness ==
    /\ d_set = 3
    /\ d_ticks = 4
    /\ d_reg = 0
    /\ s_set = 3
    /\ s_ticks = 1
    /\ s_reg = 2
    /\ panic = NoPanic

C22_RegisterIndexInRange == panic # RegOutOfBounds

====
